---- MODULE Spec2Model ----
(***************************************************************************)
(* The ledger of the freelance team tracker (src/app.py): the record store *)
(* read by main(), the reconciliation calculate_project_finances() and the *)
(* split check of the profit-split tab.                                    *)
(*                                                                         *)
(* Numbers.  Python computes on floats; the model computes on exact        *)
(* rationals held as integers:                                             *)
(*   - a currency value is held in thousandths of a currency unit, and the *)
(*     sheet's amounts and budgets are whole units (multiples of 1000);    *)
(*   - a percentage is held in tenths of a percent (50.1 % is 501).        *)
(* So (percentage / 100) * profit is (percentage * profit) \div 1000, an   *)
(* exact division, and the tolerance 0.1 of the split check is 1.          *)
(* Rounding of binary floating point is outside the model.                 *)
(***************************************************************************)
EXTENDS Integers, Sequences, FiniteSets, TLC

VARIABLES
    project_budget,   \* float(selected_project["Budget"])
    team_members,     \* the roster of the selected project, in order
    expenses,         \* the rows of the Expenses sheet
    reimbursements,   \* the rows of the Reimbursements sheet
    profit_splits,    \* the rows of the ProfitSplits sheet
    finances,         \* what calculate_project_finances gave the last run of main
    split_check,      \* what the profit-split tab showed in the last run of main
    form_message      \* what the last form submission showed: st.error or st.success

vars == <<project_budget, team_members, expenses, reimbursements,
          profit_splits, finances, split_check, form_message>>

----------------------------------------------------------------------------
(* Bounds and input domains *)

\* At most this many rows in the three sheets together.
MaxRows == 3

\* The project selected in main(), and the projects rows may belong to.
project_name == "P1"
Projects == {"P1", "P2"}

\* People named in rows; a roster need not hold all of them.
Persons == {"A", "B"}
Rosters == {<<"A">>, <<"A", "B">>}
Budgets == {-1000, 2000}

\* A cell of a row as gspread hands it over: a number, a text that float()
\* cannot parse, or no such key in the row's dict.
Num(n) == [k |-> "num", v |-> n]
Text == [k |-> "text", v |-> 0]
Missing == [k |-> "missing", v |-> 0]

\* The rows the sheets may gain.  An amount is 1 currency unit; a percentage
\* is 50 % or 50.1 %, so that two rows sum to 100 %, to 100.1 % (inside the
\* tolerance of the split check) or to 100.2 % (outside it).
ExpenseRows ==
    [Project : Projects, PaidBy : Persons,
     Amount : {Num(1000), Text, Missing}]
ReimbursementRows ==
    [Project : Projects, From : {"Client", "B"}, To : Persons,
     Amount : {Num(1000), Text}]
SplitRows ==
    [Project : Projects, Member : Persons,
     Percentage : {Num(500), Num(501), Text}]

Range(s) == {s[i] : i \in 1..Len(s)}

----------------------------------------------------------------------------
(* calculate_project_finances *)

\* dict.get(key, default) on a cell
Get(cell, default) == IF cell.k = "missing" THEN Num(default) ELSE cell

\* float(x): raises ValueError on a text that is no number
FloatRaises(cell) == cell.k = "text"
Float(cell) == cell.v

\* Variant: the rows are not filtered by project.
AllRows(rows, name) == rows

\* [r for r in rows if r.get("Project") == project_name]
ProjectRows(rows, name) == SelectSeq(rows, LAMBDA r : r.Project = name)

\* sum(float(r.get("Amount", 0)) for r in rows)
RECURSIVE SumAmounts(_)
SumAmounts(rows) ==
    IF rows = <<>> THEN 0
    ELSE Float(Get(Head(rows).Amount, 0)) + SumAmounts(Tail(rows))

\* Some float() of the function raises: the amounts of the project's expenses
\* and reimbursements, the percentages of the project's splits.
Raises(project_expenses, project_reimbursements, project_splits) ==
    \/ \E i \in 1..Len(project_expenses) :
           FloatRaises(Get(project_expenses[i].Amount, 0))
    \/ \E i \in 1..Len(project_reimbursements) :
           FloatRaises(Get(project_reimbursements[i].Amount, 0))
    \/ \E i \in 1..Len(project_splits) :
           FloatRaises(Get(project_splits[i].Percentage, 0))

\* Variant: the expenses are added to the budget.
ProfitAdds(budget, total_expenses) == budget + total_expenses

Profit(budget, total_expenses) == budget - total_expenses

\* One account per roster name, all fields zero.
InitMemberData(team) ==
    [m \in Range(team) |->
        [expenses_paid |-> 0, reimbursed |-> 0,
         profit_share |-> 0, profit_percentage |-> 0]]

\* Variant: an expense overwrites what its payer had paid before.
ExpenseStepOverwrites(member_data, expense) ==
    LET paid_by == expense.PaidBy
        amount == Float(Get(expense.Amount, 0))
    IN  IF paid_by \in DOMAIN member_data
        THEN [member_data EXCEPT ![paid_by].expenses_paid = amount]
        ELSE member_data

\* Variant: a payer off the roster gets an account of its own.
ExpenseStepAdHoc(member_data, expense) ==
    LET paid_by == expense.PaidBy
        amount == Float(Get(expense.Amount, 0))
    IN  IF paid_by \in DOMAIN member_data
        THEN [member_data EXCEPT ![paid_by].expenses_paid = @ + amount]
        ELSE member_data @@
             (paid_by :> [expenses_paid |-> amount, reimbursed |-> 0,
                          profit_share |-> 0, profit_percentage |-> 0])

\* The body of the loop over project_expenses.
ExpenseStep(member_data, expense) ==
    LET paid_by == expense.PaidBy
        amount == Float(Get(expense.Amount, 0))
    IN  IF paid_by \in DOMAIN member_data
        THEN [member_data EXCEPT ![paid_by].expenses_paid = @ + amount]
        ELSE member_data

RECURSIVE ExpenseLoop(_, _)
ExpenseLoop(member_data, rows) ==
    IF rows = <<>> THEN member_data
    ELSE ExpenseLoop(ExpenseStep(member_data, Head(rows)), Tail(rows))

\* Variant: a transfer is also taken off what its source has received.
ReimbursementStepBothSides(member_data, reimb) ==
    LET to_person == reimb.To
        from_person == reimb.From
        amount == Float(Get(reimb.Amount, 0))
        credited ==
            IF to_person \in DOMAIN member_data
            THEN [member_data EXCEPT ![to_person].reimbursed = @ + amount]
            ELSE member_data
    IN  IF from_person \in DOMAIN credited
        THEN [credited EXCEPT ![from_person].reimbursed = @ - amount]
        ELSE credited

\* The body of the loop over project_reimbursements.
ReimbursementStep(member_data, reimb) ==
    LET to_person == reimb.To
        amount == Float(Get(reimb.Amount, 0))
    IN  IF to_person \in DOMAIN member_data
        THEN [member_data EXCEPT ![to_person].reimbursed = @ + amount]
        ELSE member_data

RECURSIVE ReimbursementLoop(_, _)
ReimbursementLoop(member_data, rows) ==
    IF rows = <<>> THEN member_data
    ELSE ReimbursementLoop(ReimbursementStep(member_data, Head(rows)), Tail(rows))

\* Variant: the percentage is not divided by 100.
ProfitAmountUnscaled(percentage, profit) == (percentage * profit) \div 10

\* (percentage / 100) * profit, percentage in tenths of a percent
ProfitAmount(percentage, profit) == (percentage * profit) \div 1000

\* Variant: the rows of one member add up.
SplitStepAdds(member_data, split, profit) ==
    LET member == split.Member
        percentage == Float(Get(split.Percentage, 0))
        profit_amount == (percentage * profit) \div 1000
    IN  IF member \in DOMAIN member_data
        THEN [member_data EXCEPT ![member].profit_share = @ + profit_amount,
                                 ![member].profit_percentage = @ + percentage]
        ELSE member_data

\* The body of the loop over project_splits.
SplitStep(member_data, split, profit) ==
    LET member == split.Member
        percentage == Float(Get(split.Percentage, 0))
        profit_amount == ProfitAmount(percentage, profit)
    IN  IF member \in DOMAIN member_data
        THEN [member_data EXCEPT ![member].profit_share = profit_amount,
                                 ![member].profit_percentage = percentage]
        ELSE member_data

RECURSIVE SplitLoop(_, _, _)
SplitLoop(member_data, rows, profit) ==
    IF rows = <<>> THEN member_data
    ELSE SplitLoop(SplitStep(member_data, Head(rows), profit), Tail(rows), profit)

\* Variant: the money received is added.
BalanceAdds(account) ==
    account.profit_share + (account.expenses_paid + account.reimbursed)

Balance(account) ==
    account.profit_share + (account.expenses_paid - account.reimbursed)

\* The last loop: every account gets its balance.
BalanceLoop(member_data) ==
    [m \in DOMAIN member_data |->
        [expenses_paid |-> member_data[m].expenses_paid,
         reimbursed |-> member_data[m].reimbursed,
         profit_share |-> member_data[m].profit_share,
         profit_percentage |-> member_data[m].profit_percentage,
         balance |-> Balance(member_data[m])]]

\* The result: the summary, or the ValueError of a float() that raised.
calculate_project_finances(name, exps, reimbs, splits, budget, team) ==
    LET project_expenses == ProjectRows(exps, name)
        project_reimbursements == ProjectRows(reimbs, name)
        project_splits == ProjectRows(splits, name)
    IN  IF Raises(project_expenses, project_reimbursements, project_splits)
        THEN [status |-> "ValueError"]
        ELSE
          LET total_expenses == SumAmounts(project_expenses)
              total_reimbursed == SumAmounts(project_reimbursements)
              profit == Profit(budget, total_expenses)
              md0 == InitMemberData(team)
              md1 == ExpenseLoop(md0, project_expenses)
              md2 == ReimbursementLoop(md1, project_reimbursements)
              md3 == SplitLoop(md2, project_splits, profit)
          IN  [status |-> "ok",
               total_expenses |-> total_expenses,
               total_reimbursed |-> total_reimbursed,
               profit |-> profit,
               member_data |-> BalanceLoop(md3)]

----------------------------------------------------------------------------
(* The split check of the profit-split tab *)

\* total_pct of the loop over current_splits
RECURSIVE TotalPct(_)
TotalPct(rows) ==
    IF rows = <<>> THEN 0
    ELSE Float(Get(Head(rows).Percentage, 0)) + TotalPct(Tail(rows))

Abs(x) == IF x < 0 THEN -x ELSE x

\* abs(total_pct - 100) > 0.1, in tenths of a percent
OutOfTolerance(total_pct) == Abs(total_pct - 1000) > 1

\* "none": no split rows, nothing shown; else the warning or the success line.
SplitCheck(splits, name) ==
    LET current_splits == ProjectRows(splits, name)
    IN  IF current_splits = <<>> THEN "none"
        ELSE IF OutOfTolerance(TotalPct(current_splits)) THEN "warning"
        ELSE "success"

----------------------------------------------------------------------------
(* main(): every run reads the sheets, computes the finances and renders   *)
(* the tabs; an exception of calculate_project_finances ends the run       *)
(* before any tab is rendered.                                             *)

RunFinances(exps, reimbs, splits, budget, team) ==
    calculate_project_finances(project_name, exps, reimbs, splits, budget, team)

RunSplitCheck(result, splits) ==
    IF result.status = "ok" THEN SplitCheck(splits, project_name) ELSE "aborted"

TotalRows == Len(expenses) + Len(reimbursements) + Len(profit_splits)

Init ==
    /\ project_budget \in Budgets
    /\ team_members \in Rosters
    /\ expenses = <<>>
    /\ reimbursements = <<>>
    /\ profit_splits = <<>>
    /\ finances = RunFinances(<<>>, <<>>, <<>>, project_budget, team_members)
    /\ split_check = RunSplitCheck(finances, <<>>)
    /\ form_message = "none"

\* The Expenses sheet holds one more row at the next run of main.
AddExpenseRow ==
    /\ TotalRows < MaxRows
    /\ \E row \in ExpenseRows : expenses' = Append(expenses, row)
    /\ finances' = RunFinances(expenses', reimbursements, profit_splits,
                               project_budget, team_members)
    /\ split_check' = RunSplitCheck(finances', profit_splits)
    /\ UNCHANGED <<project_budget, team_members, reimbursements, profit_splits,
                   form_message>>

\* The Reimbursements sheet holds one more row at the next run of main.
AddReimbursementRow ==
    /\ TotalRows < MaxRows
    /\ \E row \in ReimbursementRows : reimbursements' = Append(reimbursements, row)
    /\ finances' = RunFinances(expenses, reimbursements', profit_splits,
                               project_budget, team_members)
    /\ split_check' = RunSplitCheck(finances', profit_splits)
    /\ UNCHANGED <<project_budget, team_members, expenses, profit_splits,
                   form_message>>

\* The ProfitSplits sheet holds one more row at the next run of main.
AddSplitRow ==
    /\ TotalRows < MaxRows
    /\ \E row \in SplitRows : profit_splits' = Append(profit_splits, row)
    /\ finances' = RunFinances(expenses, reimbursements, profit_splits',
                               project_budget, team_members)
    /\ split_check' = RunSplitCheck(finances', profit_splits')
    /\ UNCHANGED <<project_budget, team_members, expenses, reimbursements,
                   form_message>>

Next == AddExpenseRow \/ AddReimbursementRow \/ AddSplitRow

Spec == Init /\ [][Next]_vars

----------------------------------------------------------------------------
(* The three forms of main().  A submission is one run of main: it reads   *)
(* the sheets, validates the form's fields and, when they pass, appends a  *)
(* row through add_expense, add_reimbursement or add_profit_split and      *)
(* reruns.  append_row may raise: then nothing is appended and the error   *)
(* is shown.                                                               *)

\* What the widgets let the user enter: number_input(min_value=0.0) for the
\* amounts, number_input(min_value=0.0, max_value=100.0) for the percentage
\* (in tenths of a percent), a free text for the description.
FormAmounts == {0, 1000}
FormPercentages == {0, 500, 1000}
Descriptions == {"", "Components"}

\* selectbox("From (Source)", ["Client"] + team_members)
FormSources(team) == {"Client"} \cup Range(team)

\* Variant: an amount of zero passes.
ExpenseFormAcceptsZero(description, amount) ==
    /\ description # ""
    /\ ~(amount < 0)

\* Neither "Please enter a description" nor "Amount must be positive".
ExpenseFormAccepts(description, amount) ==
    /\ description # ""
    /\ ~(amount <= 0)

\* Neither "Source and recipient must be different" nor "Amount must be
\* positive".
ReimbursementFormAccepts(from, to, amount) ==
    /\ ~(from = to)
    /\ ~(amount <= 0)

\* Not "Percentage must be positive".
SplitFormAccepts(percentage) == ~(percentage <= 0)

\* worksheet.append_row([date, project, paid_by, description, float(amount), notes])
add_expense(rows, project, paid_by, amount) ==
    Append(rows, [Project |-> project, PaidBy |-> paid_by, Amount |-> Num(amount)])

\* worksheet.append_row([date, project, from_person, to_person, float(amount), notes])
add_reimbursement(rows, project, from_person, to_person, amount) ==
    Append(rows, [Project |-> project, From |-> from_person, To |-> to_person,
                  Amount |-> Num(amount)])

\* worksheet.append_row([project, member, float(percentage), notes])
add_profit_split(rows, project, member, percentage) ==
    Append(rows, [Project |-> project, Member |-> member,
                  Percentage |-> Num(percentage)])

\* "Add Expense" is pressed.
SubmitExpenseForm ==
    /\ \E expense_paid_by \in Range(team_members), expense_amount \in FormAmounts,
          expense_description \in Descriptions, appended \in BOOLEAN :
         IF ExpenseFormAccepts(expense_description, expense_amount) /\ appended
         THEN /\ TotalRows < MaxRows
              /\ expenses' = add_expense(expenses, project_name,
                                         expense_paid_by, expense_amount)
              /\ form_message' = "success"
         ELSE /\ expenses' = expenses
              /\ form_message' = "error"
    /\ finances' = RunFinances(expenses', reimbursements, profit_splits,
                               project_budget, team_members)
    /\ split_check' = RunSplitCheck(finances', profit_splits)
    /\ UNCHANGED <<project_budget, team_members, reimbursements, profit_splits>>

\* "Record Payment" is pressed.
SubmitReimbursementForm ==
    /\ \E reimb_from \in FormSources(team_members),
          reimb_to \in Range(team_members), reimb_amount \in FormAmounts,
          appended \in BOOLEAN :
         IF ReimbursementFormAccepts(reimb_from, reimb_to, reimb_amount) /\ appended
         THEN /\ TotalRows < MaxRows
              /\ reimbursements' = add_reimbursement(reimbursements, project_name,
                                                     reimb_from, reimb_to, reimb_amount)
              /\ form_message' = "success"
         ELSE /\ reimbursements' = reimbursements
              /\ form_message' = "error"
    /\ finances' = RunFinances(expenses, reimbursements', profit_splits,
                               project_budget, team_members)
    /\ split_check' = RunSplitCheck(finances', profit_splits)
    /\ UNCHANGED <<project_budget, team_members, expenses, profit_splits>>

\* "Add/Update Split" is pressed.
SubmitSplitForm ==
    /\ \E split_member \in Range(team_members),
          split_percentage \in FormPercentages, appended \in BOOLEAN :
         IF SplitFormAccepts(split_percentage) /\ appended
         THEN /\ TotalRows < MaxRows
              /\ profit_splits' = add_profit_split(profit_splits, project_name,
                                                   split_member, split_percentage)
              /\ form_message' = "success"
         ELSE /\ profit_splits' = profit_splits
              /\ form_message' = "error"
    /\ finances' = RunFinances(expenses, reimbursements, profit_splits',
                               project_budget, team_members)
    /\ split_check' = RunSplitCheck(finances', profit_splits')
    /\ UNCHANGED <<project_budget, team_members, expenses, reimbursements>>

NextForms == SubmitExpenseForm \/ SubmitReimbursementForm \/ SubmitSplitForm

SpecForms == Init /\ [][NextForms]_vars

----------------------------------------------------------------------------
(* Properties.  The sums below are taken over the sheets' rows directly,   *)
(* by index, and not through the operators of the function above.          *)

Ok == finances.status = "ok"
Roster == Range(team_members)

\* The number a cell holds; a cell that is absent holds none and counts 0.
NumOf(cell) == IF cell.k = "num" THEN cell.v ELSE 0

\* The rows of the selected project, by index.
ExpIdx == {i \in 1..Len(expenses) : expenses[i].Project = project_name}
ReimbIdx ==
    {i \in 1..Len(reimbursements) : reimbursements[i].Project = project_name}
SplitIdx ==
    {i \in 1..Len(profit_splits) : profit_splits[i].Project = project_name}

RECURSIVE SumFn(_, _)
SumFn(S, f) ==
    IF S = {} THEN 0
    ELSE LET x == CHOOSE y \in S : TRUE
         IN  f[x] + SumFn(S \ {x}, f)

SumSet(S, val(_)) == SumFn(S, [x \in S |-> val(x)])

ExpenseAmount(i) == NumOf(expenses[i].Amount)
ReimbAmount(i) == NumOf(reimbursements[i].Amount)
SplitPct(i) == NumOf(profit_splits[i].Percentage)

ExpensesPaidOf(m) == finances.member_data[m].expenses_paid
ProfitShareOf(m) == finances.member_data[m].profit_share

MaxOf(S) == CHOOSE x \in S : \A y \in S : y <= x

\* C1: every account of a returned member_data has
\* balance = profit_share + (expenses_paid - reimbursed).
C1_BalanceIdentity ==
    Ok => \A m \in DOMAIN finances.member_data :
            LET a == finances.member_data[m]
            IN  a.balance = a.profit_share + (a.expenses_paid - a.reimbursed)

\* An account with expenses paid, money received and a profit share.
C1_Witness ==
    /\ Ok
    /\ \E m \in DOMAIN finances.member_data :
         LET a == finances.member_data[m]
         IN  a.expenses_paid > 0 /\ a.reimbursed > 0 /\ a.profit_share # 0

\* C2: the returned profit is project_budget minus the amounts of the
\* project's expenses, and total_expenses is their sum, also for a negative
\* budget and for expenses above the budget; a step that leaves the project's
\* expense rows as they are (a transfer, a split or another project's expense
\* is added) leaves profit and total_expenses as they are.
C2_State ==
    Ok => /\ finances.total_expenses = SumSet(ExpIdx, ExpenseAmount)
          /\ finances.profit = project_budget - SumSet(ExpIdx, ExpenseAmount)

C2_Step ==
    (/\ Ok
     /\ Ok'
     /\ ExpIdx' = ExpIdx
     /\ \A i \in ExpIdx : expenses'[i] = expenses[i])
    => /\ finances'.profit = finances.profit
       /\ finances'.total_expenses = finances.total_expenses

C2_Profit == []C2_State /\ [][C2_Step]_vars

\* A negative budget with an expense, a transfer and a split of the project.
C2_Witness ==
    /\ Ok
    /\ project_budget < 0
    /\ finances.total_expenses > 0
    /\ finances.profit < project_budget
    /\ ReimbIdx # {}
    /\ SplitIdx # {}

\* C3 as stated: the accounts' expenses_paid sum to total_expenses.
C3_Original ==
    Ok => SumSet(DOMAIN finances.member_data, ExpensesPaidOf)
            = finances.total_expenses

\* C3 as amended: the accounts' expenses_paid sum to the amounts of the
\* project's expenses whose payer is on the roster; total_expenses is the sum
\* over all the project's expenses, so the two agree when every payer of the
\* project is on the roster.
C3_RosterExpenses ==
    Ok => /\ SumSet(DOMAIN finances.member_data, ExpensesPaidOf)
               = SumSet({i \in ExpIdx : expenses[i].PaidBy \in Roster},
                        ExpenseAmount)
          /\ (\A i \in ExpIdx : expenses[i].PaidBy \in Roster)
               => SumSet(DOMAIN finances.member_data, ExpensesPaidOf)
                    = finances.total_expenses

\* Two expenses of one roster member and one of somebody off the roster.
C3_Witness ==
    /\ Ok
    /\ \E i, j \in ExpIdx :
         /\ i # j
         /\ expenses[i].PaidBy = expenses[j].PaidBy
         /\ expenses[i].PaidBy \in Roster
         /\ ExpenseAmount(i) > 0 /\ ExpenseAmount(j) > 0
    /\ \E i \in ExpIdx :
         expenses[i].PaidBy \notin Roster /\ ExpenseAmount(i) > 0

\* C4: the accounts are exactly the roster's names, and each account holds
\* what the project's rows that name this member give it: rows that name
\* somebody off the roster add to no account.
C4_RosterOnly ==
    Ok =>
      /\ DOMAIN finances.member_data = Roster
      /\ \A m \in Roster :
           LET a == finances.member_data[m]
               mine == {i \in SplitIdx : profit_splits[i].Member = m}
           IN  /\ a.expenses_paid
                    = SumSet({i \in ExpIdx : expenses[i].PaidBy = m},
                             ExpenseAmount)
               /\ a.reimbursed
                    = SumSet({i \in ReimbIdx : reimbursements[i].To = m},
                             ReimbAmount)
               /\ a.profit_percentage \in {0} \cup {SplitPct(i) : i \in mine}
               /\ a.profit_share * 1000 = a.profit_percentage * finances.profit

\* An expense paid by, a transfer to and a split for somebody off the roster.
C4_Witness ==
    /\ Ok
    /\ \E i \in ExpIdx :
         expenses[i].PaidBy \notin Roster /\ ExpenseAmount(i) > 0
    /\ \E i \in ReimbIdx :
         reimbursements[i].To \notin Roster /\ ReimbAmount(i) > 0
    /\ \E i \in SplitIdx :
         profit_splits[i].Member \notin Roster /\ SplitPct(i) > 0

\* C5: with no row of the project in any sheet the function returns, with
\* one all-zero account per roster member, total_expenses 0 and profit equal
\* to the budget.
C5_NoActivity ==
    (ExpIdx = {} /\ ReimbIdx = {} /\ SplitIdx = {}) =>
      /\ Ok
      /\ Cardinality(DOMAIN finances.member_data) = Len(team_members)
      /\ \A m \in DOMAIN finances.member_data :
           finances.member_data[m]
             = [expenses_paid |-> 0, reimbursed |-> 0, profit_share |-> 0,
                profit_percentage |-> 0, balance |-> 0]
      /\ finances.total_expenses = 0
      /\ finances.total_reimbursed = 0
      /\ finances.profit = project_budget

\* Every sheet holds a row of another project, one of them with a cell that
\* float() cannot parse, and none holds a row of the project.
C5_Witness ==
    /\ ExpIdx = {} /\ ReimbIdx = {} /\ SplitIdx = {}
    /\ expenses # <<>> /\ reimbursements # <<>> /\ profit_splits # <<>>
    /\ \E i \in 1..Len(expenses) : expenses[i].Amount = Text
    /\ \E i \in 1..Len(profit_splits) : NumOf(profit_splits[i].Percentage) > 0

\* C6: a transfer of the project added to the sheet, with its recipient on
\* the roster, raises the recipient's reimbursed by its amount and changes
\* nothing else but the recipient's balance: no other account changes,
\* whoever the source is.
C6_Step ==
    \A r \in ReimbursementRows :
      (/\ reimbursements' = Append(reimbursements, r)
       /\ r.Project = project_name
       /\ r.To \in Roster
       /\ Ok
       /\ Ok')
      => LET before == finances.member_data
             after == finances'.member_data
         IN  /\ after[r.To].reimbursed = before[r.To].reimbursed + NumOf(r.Amount)
             /\ after[r.To].expenses_paid = before[r.To].expenses_paid
             /\ after[r.To].profit_share = before[r.To].profit_share
             /\ after[r.To].profit_percentage = before[r.To].profit_percentage
             /\ \A o \in Roster \ {r.To} : after[o] = before[o]

C6_TransferFrame == [][C6_Step]_vars

\* A transfer of the project from one roster member to another has been
\* added and counted.
C6_Witness ==
    /\ Ok
    /\ \E i \in ReimbIdx :
         /\ reimbursements[i].From \in Roster
         /\ reimbursements[i].To \in Roster
         /\ reimbursements[i].From # reimbursements[i].To
         /\ ReimbAmount(i) > 0
         /\ finances.member_data[reimbursements[i].To].reimbursed > 0

\* C7: a roster member with split rows of the project has the percentage of
\* the last of them, and that percentage of the profit as profit_share.
C7_LastSplitWins ==
    Ok => \A m \in Roster :
            LET mine == {i \in SplitIdx : profit_splits[i].Member = m}
                a == finances.member_data[m]
            IN  mine # {} =>
                  /\ a.profit_percentage = SplitPct(MaxOf(mine))
                  /\ a.profit_share * 1000
                       = SplitPct(MaxOf(mine)) * finances.profit

\* A roster member with two split rows of different percentages.
C7_Witness ==
    /\ Ok
    /\ finances.profit # 0
    /\ \E m \in Roster : \E i, j \in SplitIdx :
         /\ i < j
         /\ profit_splits[i].Member = m
         /\ profit_splits[j].Member = m
         /\ SplitPct(i) # SplitPct(j)
         /\ SplitPct(i) > 0 /\ SplitPct(j) > 0

\* The sheets with every cell that float() cannot parse read as zero.
Zeroed(cell) == IF cell.k = "text" THEN Num(0) ELSE cell
ZeroedAmounts(rows) ==
    [i \in 1..Len(rows) |-> [rows[i] EXCEPT !.Amount = Zeroed(@)]]
ZeroedPercentages(rows) ==
    [i \in 1..Len(rows) |-> [rows[i] EXCEPT !.Percentage = Zeroed(@)]]

\* C8 as stated: whatever the amount and percentage cells of the project's
\* rows hold, the function returns, and what it returns is the summary of the
\* rows with the unparseable and the missing cells read as zero.
C8_CoercesToZero ==
    /\ Ok
    /\ finances = RunFinances(ZeroedAmounts(expenses),
                              ZeroedAmounts(reimbursements),
                              ZeroedPercentages(profit_splits),
                              project_budget, team_members)

\* C9 as stated: the warning is shown exactly when the percentages of the
\* project's split rows sum to something further than 0.1 from 100, and then
\* the function has returned its summary.
C9_WarningExactly ==
    /\ (split_check = "warning")
         <=> (SumSet(SplitIdx, SplitPct) - 1000 > 1
              \/ 1000 - SumSet(SplitIdx, SplitPct) > 1)
    /\ split_check = "warning" => Ok

\* C10 as stated: when the split check shows success and the percentages of
\* the project's split rows sum to 100, the accounts' profit shares sum to the
\* profit.
C10_SuccessAllocatesProfit ==
    (split_check = "success" /\ SumSet(SplitIdx, SplitPct) = 1000)
    => SumSet(DOMAIN finances.member_data, ProfitShareOf) = finances.profit

\* The percentage in force for a roster member: that of the member's last
\* split row of the project, 0 without one.
EffectivePct(m) ==
    LET mine == {i \in SplitIdx : profit_splits[i].Member = m}
    IN  IF mine = {} THEN 0 ELSE SplitPct(MaxOf(mine))

BalanceOf(m) == finances.member_data[m].balance

\* Every payer, recipient and split member of the project is on the roster,
\* and the percentages in force sum to 100.
C11_Closed ==
    /\ \A i \in ExpIdx : expenses[i].PaidBy \in Roster
    /\ \A i \in ReimbIdx : reimbursements[i].To \in Roster
    /\ \A i \in SplitIdx : profit_splits[i].Member \in Roster
    /\ SumSet(Roster, EffectivePct) = 1000

\* C11: when every payer, recipient and split member of the project is on the
\* roster and the roster's percentages in force sum to 100, the balances of
\* the returned accounts sum to project_budget - total_reimbursed.
C11_Conservation ==
    (Ok /\ C11_Closed)
    => SumSet(DOMAIN finances.member_data, BalanceOf)
         = project_budget - finances.total_reimbursed

\* Two roster members with 50 % each in force, and an expense or a transfer
\* of the project counted.
C11_Witness ==
    /\ Ok
    /\ C11_Closed
    /\ Cardinality(SplitIdx) >= 2
    /\ finances.total_expenses + finances.total_reimbursed > 0
    /\ finances.profit # 0

\* s is the beginning of t.
IsPrefix(s, t) == Len(s) <= Len(t) /\ \A i \in 1..Len(s) : t[i] = s[i]

\* Every stored row is as the forms' validation leaves it.
C12_WellFormed ==
    /\ \A i \in 1..Len(expenses) :
         /\ expenses[i].Amount.k = "num"
         /\ expenses[i].Amount.v > 0
         /\ expenses[i].PaidBy \in Roster
    /\ \A i \in 1..Len(reimbursements) :
         /\ reimbursements[i].Amount.k = "num"
         /\ reimbursements[i].Amount.v > 0
         /\ reimbursements[i].To \in Roster
         /\ reimbursements[i].From \in Roster \cup {"Client"}
         /\ reimbursements[i].From # reimbursements[i].To
    /\ \A i \in 1..Len(profit_splits) :
         /\ profit_splits[i].Percentage.k = "num"
         /\ profit_splits[i].Percentage.v > 0
         /\ profit_splits[i].Percentage.v <= 1000
         /\ profit_splits[i].Member \in Roster

\* A step keeps every stored row where it is, and a submission that showed
\* an error stores nothing; the roster is fixed.
C12_Step ==
    /\ IsPrefix(expenses, expenses')
    /\ IsPrefix(reimbursements, reimbursements')
    /\ IsPrefix(profit_splits, profit_splits')
    /\ team_members' = team_members
    /\ form_message' = "error"
         => UNCHANGED <<expenses, reimbursements, profit_splits>>
    /\ form_message' = "success"
         => Len(expenses') + Len(reimbursements') + Len(profit_splits')
              = TotalRows + 1

\* C12: starting from empty sheets, whatever is submitted through the
\* expense, money-flow and profit-split forms, rows are only appended, every
\* stored row is well formed, and a rejected submission stores nothing.
C12_FormsStore == []C12_WellFormed /\ [][C12_Step]_vars

\* Each sheet holds a row, one transfer is between two roster members, and
\* the last submission was rejected.
C12_Witness ==
    /\ expenses # <<>> /\ profit_splits # <<>>
    /\ \E i \in 1..Len(reimbursements) : reimbursements[i].From \in Roster
    /\ form_message = "error"

====
